---- MODULE Spec2Model ----
(***************************************************************************)
(* Model of the side panel script chrome_extension/sidepanel.js: the tab   *)
(* reconciliation routine connectToCurrentTab / handleDisconnect and the   *)
(* question submission handler handleSend, run as event callbacks and      *)
(* promise continuations on one thread.                                    *)
(***************************************************************************)
EXTENDS Integers, Sequences, FiniteSets, Bags, TLC

\* Bounds of the model.
MaxRuns == 2        \* connectToCurrentTab calls in flight at once
MaxPending == 2     \* fetch requests in flight at once
MaxLog == 3         \* a question is accepted only while the log is shorter

(***************************************************************************)
(* JavaScript values: null, or a string.                                   *)
(***************************************************************************)
JsNull == [null |-> TRUE, str |-> ""]

JsStr(s) == [null |-> FALSE, str |-> s]

\* if (v): null and the empty string are falsy.
Truthy(v) == ~v.null /\ v.str # ""

(***************************************************************************)
(* Strings the code takes apart are sequences of pieces (each piece a run  *)
(* of characters); Join gives the string itself.                           *)
(***************************************************************************)
RECURSIVE Join(_)
Join(toks) == IF toks = <<>> THEN "" ELSE Head(toks) \o Join(Tail(toks))

\* String.prototype.includes
Includes(s, pat) ==
    \E i \in 0..(Len(s) - Len(pat)) : SubSeq(s, i + 1, i + Len(pat)) = pat

\* String.prototype.indexOf, 1-based; 0 when absent.
IndexOf(s, t) ==
    IF \E i \in 1..Len(s) : s[i] = t
      THEN CHOOSE i \in 1..Len(s) : s[i] = t /\ \A j \in 1..(i - 1) : s[j] # t
      ELSE 0

\* String.prototype.trim on a sequence of characters.
RECURSIVE TrimStart(_)
TrimStart(s) ==
    IF s # <<>> /\ Head(s) = " " THEN TrimStart(Tail(s)) ELSE s

RECURSIVE TrimEnd(_)
TrimEnd(s) ==
    IF s # <<>> /\ s[Len(s)] = " " THEN TrimEnd(SubSeq(s, 1, Len(s) - 1)) ELSE s

Trim(s) == TrimEnd(TrimStart(s))

RemoveAt(s, i) == SubSeq(s, 1, i - 1) \o SubSeq(s, i + 1, Len(s))

(***************************************************************************)
(* URLs.  new URL(u).search is the part from "?" up to the fragment;       *)
(* URLSearchParams splits it at "&" and each pair at its first "=".        *)
(***************************************************************************)
Search(u) ==
    LET h == IndexOf(u, "#")
        noHash == IF h = 0 THEN u ELSE SubSeq(u, 1, h - 1)
        q == IndexOf(noHash, "?")
    IN  IF q = 0 THEN <<>> ELSE SubSeq(noHash, q + 1, Len(noHash))

RECURSIVE Split(_, _)
Split(s, sep) ==
    LET k == IndexOf(s, sep)
    IN  IF k = 0 THEN <<s>>
        ELSE <<SubSeq(s, 1, k - 1)>> \o Split(SubSeq(s, k + 1, Len(s)), sep)

ParamName(pair) ==
    LET e == IndexOf(pair, "=")
    IN  Join(IF e = 0 THEN pair ELSE SubSeq(pair, 1, e - 1))

ParamValue(pair) ==
    LET e == IndexOf(pair, "=")
    IN  Join(IF e = 0 THEN <<>> ELSE SubSeq(pair, e + 1, Len(pair)))

\* URLSearchParams.get: the first value of the name, or null.
ParamGet(search, name) ==
    LET pairs == SelectSeq(Split(search, "&"), LAMBDA p : p # <<>>)
        hits == SelectSeq(pairs, LAMBDA p : ParamName(p) = name)
    IN  IF hits = <<>> THEN JsNull ELSE JsStr(ParamValue(hits[1]))

\* What chrome.tabs.query gives as its first result: no tab, or a tab whose
\* url may be missing (the empty sequence).
NoTab == [present |-> FALSE, url |-> <<>>]

TabAt(u) == [present |-> TRUE, url |-> u]

WatchA == <<"https://", "www.", "youtube.com", "/watch", "?", "v", "=", "A">>

WatchB == <<"https://", "www.", "youtube.com", "/watch", "?", "v", "=", "B">>

WatchNoV == <<"https://", "www.", "youtube.com", "/watch">>

Example == <<"https://", "example.com", "/">>

\* The tabs the browser shows in the full model.
Tabs == {TabAt(WatchA), TabAt(WatchB), TabAt(Example)}

\* More tabs, for the model of the URL handling alone: no tab, a tab without
\* url, a watch page with v empty, with v second, with v in the fragment, on
\* the mobile host, a short link, and two pages off YouTube whose URL holds
\* the text youtube.com/watch.
WatchEmptyV == <<"https://", "www.", "youtube.com", "/watch", "?", "v", "=">>

WatchVSecond ==
    <<"https://", "www.", "youtube.com", "/watch", "?", "t", "=", "10", "&", "v", "=", "B">>

WatchFragment == <<"https://", "www.", "youtube.com", "/watch", "#", "v", "=", "A">>

WatchMobile == <<"https://", "m.", "youtube.com", "/watch", "?", "v", "=", "A">>

ShortLink == <<"https://", "youtu.be", "/", "A">>

OtherHost == <<"https://", "not", "youtube.com", "/watch", "?", "v", "=", "A">>

OtherQuery == <<"https://", "example.com", "/", "?", "q", "=", "youtube.com", "/watch">>

UrlTabs ==
    Tabs \cup {NoTab, TabAt(<<>>)} \cup
    { TabAt(u) : u \in {WatchNoV, WatchEmptyV, WatchVSecond, WatchFragment,
                        WatchMobile, ShortLink, OtherHost, OtherQuery} }


\* What the user may have typed into the input field, as characters.
Texts == {<<" ">>, <<" ", "q", " ">>}

(***************************************************************************)
(* State.                                                                  *)
(***************************************************************************)
VARIABLES
    currentVideoId,  \* let currentVideoId: null or the video id
    statusEl,        \* #status: textContent and className
    inputEl,         \* #question-input: value (characters) and disabled
    sendBtn,         \* #send-btn: disabled
    chatHistory,     \* #chat-history: its child elements, in document order
    requests,        \* bag: handleSend calls suspended at fetch, with their payload
    runs,            \* bag: connectToCurrentTab calls suspended at chrome.tabs.query
    tab,             \* the browser's active tab in the current window
    lastHandler,     \* history: "handleSend" when the step before was a handleSend call
    lastVideo,       \* history: the video the connectToCurrentTab that finished last
                     \* found, and whether the one before it found the same
    lastSeen,        \* history: what the chrome.tabs.query answered last saw
    lastOutcome      \* history: how the request ended whose handling was the step before

panel == <<currentVideoId, statusEl, inputEl, sendBtn, chatHistory>>

vars == <<currentVideoId, statusEl, inputEl, sendBtn, chatHistory, requests,
          runs, tab, lastHandler, lastVideo, lastSeen, lastOutcome>>

\* The status text of the panel's markup, before any script has set it.
MarkupStatus == [textContent |-> "", className |-> "status"]

GreetingText == "Hello! I'm ready to answer questions about this video."

\* An element of #chat-history: its class, its text and its id.
Message(text, sender, id) == [sender |-> sender, text |-> text, id |-> id]

Greeting == Message(GreetingText, "bot", "")

\* chatHistory.innerHTML = one bot message.
ClearedHistory == <<Greeting>>

AppendMessage(history, text, sender) ==
    Append(history, Message(text, IF sender = "user" THEN "user" ELSE "bot", ""))

AppendLoading(history) ==
    Append(history, Message("Thinking", "bot", "loading-msg"))

\* document.getElementById('loading-msg') is the first such element.
RemoveLoading(history) ==
    IF \E i \in 1..Len(history) : history[i].id = "loading-msg"
      THEN RemoveAt(history,
                    CHOOSE i \in 1..Len(history) :
                        /\ history[i].id = "loading-msg"
                        /\ \A j \in 1..(i - 1) : history[j].id # "loading-msg")
      ELSE history

(***************************************************************************)
(* connectToCurrentTab and handleDisconnect.                               *)
(***************************************************************************)
IsWatchUrl(t) ==
    t.present /\ t.url # <<>> /\ Includes(t.url, <<"youtube.com", "/watch">>)

VideoIdOf(t) == ParamGet(Search(t.url), "v")

\* Mutant: every video found counts as a new one.
IsNewVideo_Always(videoId) == TRUE

IsNewVideo(videoId) == videoId # currentVideoId

\* Mutant: the log is emptied on disconnect.
HandleDisconnect_ClearsLog(reason) ==
    /\ currentVideoId' = JsNull
    /\ statusEl' = [textContent |-> reason, className |-> "status error"]
    /\ inputEl' = [inputEl EXCEPT !.disabled = TRUE]
    /\ sendBtn' = [disabled |-> TRUE]
    /\ chatHistory' = <<>>

\* Mutant: currentVideoId is kept on disconnect.
HandleDisconnect_KeepsVideo(reason) ==
    /\ statusEl' = [textContent |-> reason, className |-> "status error"]
    /\ inputEl' = [inputEl EXCEPT !.disabled = TRUE]
    /\ sendBtn' = [disabled |-> TRUE]
    /\ UNCHANGED <<currentVideoId, chatHistory>>

HandleDisconnect(reason) ==
    /\ currentVideoId' = JsNull
    /\ statusEl' = [textContent |-> reason, className |-> "status error"]
    /\ inputEl' = [inputEl EXCEPT !.disabled = TRUE]
    /\ sendBtn' = [disabled |-> TRUE]
    /\ UNCHANGED chatHistory

\* Mutant: the greeting is appended to the log instead of replacing it.
ConnectNewVideo_KeepLog(videoId) ==
    /\ currentVideoId' = videoId
    /\ statusEl' = [textContent |-> "Connected", className |-> "status connected"]
    /\ inputEl' = [inputEl EXCEPT !.disabled = FALSE]
    /\ sendBtn' = [disabled |-> FALSE]
    /\ chatHistory' = Append(chatHistory, Greeting)

ConnectNewVideo(videoId) ==
    /\ currentVideoId' = videoId
    /\ statusEl' = [textContent |-> "Connected", className |-> "status connected"]
    /\ inputEl' = [inputEl EXCEPT !.disabled = FALSE]
    /\ sendBtn' = [disabled |-> FALSE]
    /\ chatHistory' = ClearedHistory

\* The body of connectToCurrentTab after the tab query has answered t.
Reconcile(t) ==
    IF IsWatchUrl(t)
      THEN LET videoId == VideoIdOf(t)
           IN  IF Truthy(videoId)
                 THEN IF IsNewVideo(videoId)
                        THEN ConnectNewVideo(videoId)
                        ELSE UNCHANGED panel
                 ELSE HandleDisconnect("No Video ID")
      ELSE HandleDisconnect("Not YouTube")

\* What a run that saw t leaves in currentVideoId.
FoundVideo(t) ==
    IF IsWatchUrl(t) /\ Truthy(VideoIdOf(t)) THEN VideoIdOf(t) ELSE JsNull

\* connectToCurrentTab() is called: it suspends at chrome.tabs.query.
Unanswered == [seen |-> FALSE, tab |-> NoTab]

Answered(t) == [seen |-> TRUE, tab |-> t]

StartRun ==
    /\ BagCardinality(runs) < MaxRuns
    /\ runs' = runs (+) SetToBag({Unanswered})

\* The browser answers a pending query with the tab it shows at that moment.
TabsQuery ==
    /\ BagIn(Unanswered, runs)
    /\ runs' = (runs (-) SetToBag({Unanswered})) (+) SetToBag({Answered(tab)})
    /\ UNCHANGED <<panel, requests, tab, lastVideo>>

\* A suspended connectToCurrentTab resumes with the answer to its query.
\* Nothing orders the resumption of two calls.
ConnectToCurrentTab(t) ==
    /\ BagIn(Answered(t), runs)
    /\ Reconcile(t)
    /\ runs' = runs (-) SetToBag({Answered(t)})
    /\ lastVideo' = [any |-> TRUE, video |-> FoundVideo(t),
                     again |-> /\ lastVideo.any
                               /\ Truthy(FoundVideo(t))
                               /\ FoundVideo(t) = lastVideo.video]
    /\ UNCHANGED <<requests, tab>>

(***************************************************************************)
(* The browser: navigation in the active tab and the two tab events.       *)
(***************************************************************************)
Navigate(t) ==
    /\ t # tab
    /\ tab' = t
    /\ UNCHANGED <<panel, requests, runs, lastVideo>>

\* chrome.tabs.onUpdated listener.
OnUpdated(status, active) ==
    /\ IF status = "complete" /\ active THEN StartRun ELSE UNCHANGED runs
    /\ UNCHANGED <<panel, requests, tab, lastVideo>>

\* chrome.tabs.onActivated listener: the user has switched to tab t.
OnActivated(t) ==
    /\ tab' = t
    /\ StartRun
    /\ UNCHANGED <<panel, requests, lastVideo>>

(***************************************************************************)
(* handleSend.                                                             *)
(***************************************************************************)
\* The user edits the input field (a disabled field takes no input).
TypeText(text) ==
    /\ ~inputEl.disabled
    /\ inputEl.value # text
    /\ inputEl' = [inputEl EXCEPT !.value = text]
    /\ UNCHANGED <<currentVideoId, statusEl, sendBtn, chatHistory, requests,
                   runs, tab, lastVideo>>

\* Mutant: the guard does not look at currentVideoId.
SendRejected_NoSessionCheck(question) == question = <<>>

\* if (!question || !currentVideoId) return;
SendRejected(question) == question = <<>> \/ ~Truthy(currentVideoId)

\* Mutant: the question is sent as typed, untrimmed.
RequestBody_RawInput(question) ==
    [video_id |-> currentVideoId, question |-> Join(inputEl.value)]

\* JSON.stringify({ video_id: currentVideoId, question: question })
RequestBody(question) ==
    [video_id |-> currentVideoId, question |-> Join(question)]

\* handleSend up to its first await: the click on an enabled send button or
\* Enter in the enabled input field.
HandleSend ==
    /\ ~sendBtn.disabled \/ ~inputEl.disabled
    /\ UNCHANGED <<currentVideoId, statusEl, runs, tab, lastVideo>>
    /\ LET question == Trim(inputEl.value)
       IN  IF SendRejected(question)
             THEN UNCHANGED <<inputEl, sendBtn, chatHistory, requests>>
             ELSE /\ BagCardinality(requests) < MaxPending
                  /\ Len(chatHistory) < MaxLog
                  /\ chatHistory' =
                         AppendLoading(
                             AppendMessage(chatHistory, Join(question), "user"))
                  /\ inputEl' = [value |-> <<>>, disabled |-> TRUE]
                  /\ sendBtn' = [disabled |-> TRUE]
                  /\ requests' = requests (+) SetToBag({RequestBody(question)})

\* How a request ends: fetch rejects (failed), or a response arrives with
\* its ok flag and a body that parses as JSON or not, holding answer/error.
NetworkFailure ==
    [failed |-> TRUE, ok |-> FALSE, json |-> FALSE, answer |-> JsNull, error |-> JsNull]

Response(ok, json, answer, error) ==
    [failed |-> FALSE, ok |-> ok, json |-> json, answer |-> answer, error |-> error]

Outcomes ==
    { NetworkFailure,
      Response(TRUE, TRUE, JsStr("It's a tutorial."), JsNull),
      Response(TRUE, TRUE, JsNull, JsNull),
      Response(TRUE, FALSE, JsNull, JsNull),
      Response(FALSE, TRUE, JsNull, JsStr("No transcript")),
      Response(FALSE, TRUE, JsNull, JsStr("")),
      Response(FALSE, TRUE, JsNull, JsNull),
      Response(FALSE, FALSE, JsNull, JsNull) }

\* No request has just ended.
NoOutcome == [any |-> FALSE, outcome |-> NetworkFailure]

\* The outcomes drawn in the full model: an answer, and a failure.
MainOutcomes ==
    { NetworkFailure, Response(TRUE, TRUE, JsStr("It's a tutorial."), JsNull) }

ConnectErrorText == "Error: Could not connect to server. Make sure app.py is running."

\* Mutant: the server's error text is shown without the prefix.
ReplyText_NoPrefix(outcome) ==
    IF outcome.failed \/ ~outcome.json
      THEN ConnectErrorText
      ELSE IF outcome.ok
             THEN outcome.answer.str
             ELSE IF Truthy(outcome.error) THEN outcome.error.str
                                           ELSE "Server error"

\* The text of the bot message the try/catch appends.
ReplyText(outcome) ==
    IF outcome.failed \/ ~outcome.json
      THEN ConnectErrorText
      ELSE IF outcome.ok
             THEN outcome.answer.str
             ELSE "Error: " \o (IF Truthy(outcome.error) THEN outcome.error.str
                                                       ELSE "Server error")

\* Mutant: the controls are left as they are.
RestoreControls_Skipped == UNCHANGED <<inputEl, sendBtn>>

\* finally { inputEl.disabled = false; sendBtn.disabled = false; }
RestoreControls ==
    /\ inputEl' = [inputEl EXCEPT !.disabled = FALSE]
    /\ sendBtn' = [disabled |-> FALSE]

\* Mutant: a failed request disconnects the Session.
HandleSendResume_Disconnects(req, outcome) ==
    /\ BagIn(req, requests)
    /\ chatHistory' =
           AppendMessage(RemoveLoading(chatHistory), ReplyText(outcome), "bot")
    /\ RestoreControls
    /\ requests' = requests (-) SetToBag({req})
    /\ currentVideoId' = IF outcome.failed THEN JsNull ELSE currentVideoId
    /\ UNCHANGED <<statusEl, runs, tab, lastVideo>>

\* handleSend resumes after fetch and response.json() (it does nothing in
\* between) and runs to its end.
HandleSendResume(req, outcome) ==
    /\ BagIn(req, requests)
    /\ chatHistory' =
           AppendMessage(RemoveLoading(chatHistory), ReplyText(outcome), "bot")
    /\ RestoreControls
    /\ requests' = requests (-) SetToBag({req})
    /\ UNCHANGED <<currentVideoId, statusEl, runs, tab, lastVideo>>

(***************************************************************************)
(* The panel after DOMContentLoaded: the first connectToCurrentTab call is *)
(* suspended at its tab query.  The markup decides whether the controls    *)
(* start disabled.                                                         *)
(***************************************************************************)
Init ==
    /\ currentVideoId = JsNull
    /\ statusEl = MarkupStatus
    /\ inputEl \in [value : {<<>>}, disabled : BOOLEAN]
    /\ sendBtn \in [disabled : BOOLEAN]
    /\ chatHistory = <<>>
    /\ requests = EmptyBag
    /\ runs = SetToBag({Unanswered})
    /\ tab \in Tabs
    /\ lastHandler = ""
    /\ lastVideo = [any |-> FALSE, video |-> JsNull, again |-> FALSE]
    /\ lastSeen = [any |-> FALSE, tab |-> NoTab]
    /\ lastOutcome = NoOutcome

\* History kept by the full model: whether the step was a handleSend call.
Other == lastHandler' = "" /\ UNCHANGED <<lastSeen, lastOutcome>>

Next ==
    \/ (\E t \in Tabs : Navigate(t)) /\ Other
    \/ (\E status \in {"loading", "complete"}, active \in BOOLEAN :
            OnUpdated(status, active)) /\ Other
    \/ (\E t \in Tabs : OnActivated(t)) /\ Other
    \/ TabsQuery /\ Other
    \/ (\E t \in Tabs : ConnectToCurrentTab(t)) /\ Other
    \/ (\E text \in Texts : TypeText(text)) /\ Other
    \/ HandleSend /\ lastHandler' = "handleSend" /\ UNCHANGED <<lastSeen, lastOutcome>>
    \/ (\E req \in BagToSet(requests), outcome \in MainOutcomes :
            HandleSendResume(req, outcome)) /\ Other

Spec == Init /\ [][Next]_vars


(***************************************************************************)
(* The same program, the history being what the last answered tab query    *)
(* saw instead of the handler that ran last.                               *)
(***************************************************************************)
NotSeen == UNCHANGED <<lastHandler, lastSeen, lastOutcome>>

NextSeen ==
    \/ (\E t \in Tabs : Navigate(t)) /\ NotSeen
    \/ (\E status \in {"loading", "complete"}, active \in BOOLEAN :
            OnUpdated(status, active)) /\ NotSeen
    \/ (\E t \in Tabs : OnActivated(t)) /\ NotSeen
    \/ TabsQuery /\ lastSeen' = [any |-> TRUE, tab |-> tab]
                 /\ UNCHANGED <<lastHandler, lastOutcome>>
    \/ (\E t \in Tabs : ConnectToCurrentTab(t)) /\ NotSeen
    \/ (\E text \in Texts : TypeText(text)) /\ NotSeen
    \/ HandleSend /\ NotSeen
    \/ (\E req \in BagToSet(requests), outcome \in MainOutcomes :
            HandleSendResume(req, outcome)) /\ NotSeen

SpecSeen == Init /\ [][NextSeen]_vars

(***************************************************************************)
(* connectToCurrentTab alone, over the tabs of UrlTabs.                    *)
(***************************************************************************)
InitUrl ==
    /\ currentVideoId = JsNull
    /\ statusEl = MarkupStatus
    /\ inputEl \in [value : {<<>>}, disabled : BOOLEAN]
    /\ sendBtn \in [disabled : BOOLEAN]
    /\ chatHistory = <<>>
    /\ requests = EmptyBag
    /\ runs = SetToBag({Unanswered})
    /\ tab \in UrlTabs
    /\ lastHandler = ""
    /\ lastVideo = [any |-> FALSE, video |-> JsNull, again |-> FALSE]
    /\ lastSeen = [any |-> FALSE, tab |-> NoTab]
    /\ lastOutcome = NoOutcome

NextUrl ==
    \/ (\E t \in UrlTabs : Navigate(t)) /\ NotSeen
    \/ (\E status \in {"loading", "complete"}, active \in BOOLEAN :
            OnUpdated(status, active)) /\ NotSeen
    \/ (\E t \in UrlTabs : OnActivated(t)) /\ NotSeen
    \/ TabsQuery /\ NotSeen
    \/ (\E t \in UrlTabs : ConnectToCurrentTab(t)) /\ NotSeen

SpecUrl == InitUrl /\ [][NextUrl]_vars

(***************************************************************************)
(* The panel on one video, a watch page without v and a page off YouTube,  *)
(* every way a request can end being drawn; the history is how the request *)
(* handled in the step before ended.  Tab events come one at a time here:  *)
(* a listener fires when no connectToCurrentTab call is in flight.         *)
(***************************************************************************)
SendTabs == {TabAt(WatchA), TabAt(WatchNoV), TabAt(Example)}

NoRequestEnded == lastOutcome' = NoOutcome /\ UNCHANGED <<lastHandler, lastSeen>>

InitSend ==
    /\ currentVideoId = JsNull
    /\ statusEl = MarkupStatus
    /\ inputEl \in [value : {<<>>}, disabled : BOOLEAN]
    /\ sendBtn \in [disabled : BOOLEAN]
    /\ chatHistory = <<>>
    /\ requests = EmptyBag
    /\ runs = SetToBag({Unanswered})
    /\ tab \in SendTabs
    /\ lastHandler = ""
    /\ lastVideo = [any |-> FALSE, video |-> JsNull, again |-> FALSE]
    /\ lastSeen = [any |-> FALSE, tab |-> NoTab]
    /\ lastOutcome = NoOutcome

NextSend ==
    \/ (\E t \in SendTabs : Navigate(t)) /\ NoRequestEnded
    \/ (\E status \in {"loading", "complete"}, active \in BOOLEAN :
            OnUpdated(status, active)) /\ runs = EmptyBag /\ NoRequestEnded
    \/ (\E t \in SendTabs : OnActivated(t)) /\ runs = EmptyBag /\ NoRequestEnded
    \/ TabsQuery /\ NoRequestEnded
    \/ (\E t \in SendTabs : ConnectToCurrentTab(t)) /\ NoRequestEnded
    \/ (\E text \in Texts : TypeText(text)) /\ NoRequestEnded
    \/ HandleSend /\ NoRequestEnded
    \/ \E req \in BagToSet(requests), outcome \in Outcomes :
            /\ HandleSendResume(req, outcome)
            /\ lastOutcome' = [any |-> TRUE, outcome |-> outcome]
            /\ UNCHANGED <<lastHandler, lastSeen>>

SpecSend == InitSend /\ [][NextSend]_vars

(***************************************************************************)
(* Properties.                                                             *)
(***************************************************************************)
Pending == BagCardinality(requests)

ControlsDisabled == inputEl.disabled /\ sendBtn.disabled

ControlsEnabled == ~inputEl.disabled /\ ~sendBtn.disabled

\* The step is a handleSend call that issued a request.
Submitted == BagCardinality(requests') > BagCardinality(requests)

\* The step is the completion of request req.
Completed(req) == CopiesIn(req, requests') < CopiesIn(req, requests)

\* The step is the resumption of a connectToCurrentTab call that saw tab t.
Reconciled(t) == CopiesIn(Answered(t), runs') < CopiesIn(Answered(t), runs)

\* The messages of the log, the "thinking" placeholder left out.
Messages(history) == SelectSeq(history, LAMBDA m : m.id # "loading-msg")

\* C1: at most one question/answer request is outstanding, in every
\* reachable state.
C1_SingleFlight == Pending <= 1

\* C2: while a submitted request is pending, the text input and the send
\* control are disabled.
C2_DisabledWhilePending == Pending > 0 => ControlsDisabled

\* C3: a response to a request issued under another videoId is never
\* appended to the log of the current video: whenever a request completes
\* while a video is connected, the request was issued for that video.
C3_LogScopedToVideo ==
    [][\A req \in BagToSet(requests) :
           Completed(req) /\ Truthy(currentVideoId)
               => req.video_id = currentVideoId]_vars

\* C4: a reconcile() run that finds a video other than the current one
\* connects to it, leaves the log holding the greeting alone and enables the
\* controls; whatever is appended later comes after the greeting.
C4_SwitchResetsLog ==
    [][/\ \A t \in Tabs :
              Reconciled(t) /\ Truthy(FoundVideo(t))
                            /\ FoundVideo(t) # currentVideoId
                  => /\ currentVideoId' = FoundVideo(t)
                     /\ statusEl'.textContent = "Connected"
                     /\ chatHistory' = <<Greeting>>
                     /\ ControlsEnabled'
       /\ (chatHistory # <<>> /\ chatHistory[1] = Greeting)
              => (chatHistory' # <<>> /\ chatHistory'[1] = Greeting)]_vars

\* Connected to B while a question asked under A is still pending, the log
\* being the greeting followed by a question and its placeholder.
C4_Witness ==
    /\ currentVideoId = JsStr("B")
    /\ \E req \in BagToSet(requests) : req.video_id = JsStr("A")
    /\ Len(chatHistory) = 3
    /\ chatHistory[1] = Greeting
    /\ chatHistory[2].sender = "user"

\* C5: a reconcile() run that finds the video the run before it found
\* leaves Session.videoId, the status and the log as they are.
C5_ReconcileIdempotent ==
    [][\A t \in Tabs :
           Reconciled(t) /\ lastVideo.any /\ Truthy(FoundVideo(t))
                         /\ FoundVideo(t) = lastVideo.video
               => UNCHANGED <<currentVideoId, statusEl, chatHistory>>]_vars

\* A run has found the same video as the run before it, with a conversation
\* in the log.
C5_Witness ==
    /\ lastVideo.again
    /\ runs = EmptyBag
    /\ Len(chatHistory) >= 3
    /\ chatHistory[2].sender = "user"

\* C6: an accepted submission appends exactly one user message (the trimmed
\* question), and its completion appends exactly one bot message and leaves
\* the controls enabled.
C6_OneQuestionOneReply ==
    [][/\ Submitted =>
              /\ \E n \in 1..Len(inputEl.value) : inputEl.value[n] # " "
              /\ Truthy(currentVideoId)
              /\ Messages(chatHistory') =
                     Append(Messages(chatHistory),
                            Message(Join(Trim(inputEl.value)), "user", ""))
              /\ Pending' = Pending + 1
       /\ \A req \in BagToSet(requests) : Completed(req) =>
              /\ Len(chatHistory') >= 1
              /\ Messages(chatHistory') =
                     Append(Messages(chatHistory),
                            Message(chatHistory'[Len(chatHistory')].text, "bot", ""))
              /\ Pending' = Pending - 1
              /\ ControlsEnabled']_vars

\* A question and its reply stand at the end of the log, nothing is pending
\* and the controls are enabled.
C6_Witness ==
    /\ requests = EmptyBag
    /\ Len(chatHistory) >= 3
    /\ chatHistory[Len(chatHistory) - 1].sender = "user"
    /\ chatHistory[Len(chatHistory)].sender = "bot"
    /\ chatHistory[Len(chatHistory)].id = ""
    /\ ControlsEnabled

\* C7: a handleSend call made while no video is connected, or with a
\* question that is empty after trimming, changes nothing.
C7_RejectedSendIsNoOp ==
    [][(/\ lastHandler' = "handleSend"
        /\ \/ currentVideoId = JsNull
           \/ \A n \in 1..Len(inputEl.value) : inputEl.value[n] = " ")
           => UNCHANGED <<chatHistory, requests, inputEl, sendBtn,
                          currentVideoId, statusEl>>]_vars

\* handleSend has just been called with a question typed in and no video
\* connected.
C7_Witness ==
    /\ lastHandler = "handleSend"
    /\ currentVideoId = JsNull
    /\ \E n \in 1..Len(inputEl.value) : inputEl.value[n] # " "
    /\ ControlsEnabled

\* C8: once the first reconcile() has completed, the controls are disabled
\* whenever the Session is Disconnected.
C8_DisconnectedDisablesInput ==
    (lastVideo.any /\ currentVideoId = JsNull) => ControlsDisabled


\* C9: once every overlapping reconcile() run has completed, the Session and
\* the controls are what the run that saw the tab last gives: its video (or
\* none), the status "Connected" exactly when there is one, the controls
\* disabled without a video and enabled with one and nothing pending.
C9_LastObserverWins ==
    (runs = EmptyBag /\ lastSeen.any) =>
        /\ currentVideoId = FoundVideo(lastSeen.tab)
        /\ (statusEl.textContent = "Connected") = Truthy(FoundVideo(lastSeen.tab))
        /\ ~Truthy(FoundVideo(lastSeen.tab)) => ControlsDisabled
        /\ (Truthy(FoundVideo(lastSeen.tab)) /\ Pending = 0) => ControlsEnabled

\* The host of a URL: the pieces between the scheme and the path.
PathAt(u) ==
    IF \E i \in 2..Len(u) : u[i] \in {"/", "/watch"}
      THEN CHOOSE i \in 2..Len(u) :
               u[i] \in {"/", "/watch"} /\ \A j \in 2..(i - 1) : u[j] \notin {"/", "/watch"}
      ELSE 0

\* A YouTube watch page: the path /watch on a YouTube host.
IsYouTubeWatchPage(t) ==
    /\ t.present
    /\ PathAt(t.url) # 0
    /\ t.url[PathAt(t.url)] = "/watch"
    /\ SubSeq(t.url, 2, PathAt(t.url) - 1) \in
           {<<"youtube.com">>, <<"www.", "youtube.com">>, <<"m.", "youtube.com">>}

Disconnected(reason) ==
    /\ currentVideoId = JsNull
    /\ statusEl.textContent = reason
    /\ ControlsDisabled

\* C10: for every URL, reconcile() gives Connected with the v parameter of a
\* YouTube watch page, Disconnected "No Video ID" for a watch page without
\* one, and Disconnected "Not YouTube" for any other URL and for no tab.
C10_UrlToSession ==
    [][\A t \in UrlTabs : Reconciled(t) =>
           IF IsYouTubeWatchPage(t)
             THEN /\ Truthy(VideoIdOf(t)) =>
                         /\ currentVideoId' = VideoIdOf(t)
                         /\ statusEl'.textContent = "Connected"
                  /\ VideoIdOf(t) = JsNull => Disconnected("No Video ID")'
             ELSE Disconnected("Not YouTube")']_vars


\* The "thinking" placeholders in the log.
Placeholders(history) == Len(SelectSeq(history, LAMBDA m : m.id = "loading-msg"))

\* The request ended in a failure: the network failed, the status was not a
\* success, or the body could not be read.
Failure(o) == o.failed \/ ~o.ok \/ ~o.json

\* C11: whichever way a request fails, its handling takes a placeholder out
\* of the log (if there is one), appends exactly one bot message that is
\* "Error: " followed by the server's error text when the response carries
\* one and by a generic text otherwise, enables the controls and issues no
\* further request.
C11_FailureRendered ==
    [][(lastOutcome'.any /\ Failure(lastOutcome'.outcome)) =>
           LET o == lastOutcome'.outcome
               last == chatHistory'[Len(chatHistory')]
           IN  /\ Placeholders(chatHistory') =
                      (IF Placeholders(chatHistory) = 0
                         THEN 0 ELSE Placeholders(chatHistory) - 1)
               /\ Messages(chatHistory') = Append(Messages(chatHistory), last)
               /\ last.sender = "bot"
               /\ last.id = ""
               /\ IF ~o.failed /\ o.json /\ Truthy(o.error)
                    THEN last.text = "Error: " \o o.error.str
                    ELSE last.text \in
                             { "Error: Server error",
                               "Error: Could not connect to server. Make sure app.py is running." }
               /\ ControlsEnabled'
               /\ Pending' = Pending - 1]_vars

\* A request has just failed with the server's error text, which stands at
\* the end of the log behind the prefix.
C11_Witness ==
    /\ lastOutcome.any
    /\ lastOutcome.outcome.error = JsStr("No transcript")
    /\ chatHistory[Len(chatHistory)].text = "Error: No transcript"
    /\ ControlsEnabled

\* C12: the log holds at most one placeholder, none when no request is
\* outstanding, and one for as long as a request is pending.
C12_OnePlaceholderPerSubmission ==
    /\ Placeholders(chatHistory) <= 1
    /\ Pending = 0 => Placeholders(chatHistory) = 0
    /\ Pending > 0 => Placeholders(chatHistory) >= 1

\* C13: an accepted submission issues exactly one request, whose payload is
\* the currentVideoId of that moment and the trimmed input text; no other
\* step adds a request or changes one in flight.
C13_PayloadFixedAtSubmit ==
    [][/\ lastHandler' = "handleSend" =>
              \/ requests' = requests
              \/ requests' = requests (+)
                     SetToBag({[video_id |-> currentVideoId,
                                question |-> Join(Trim(inputEl.value))]})
       /\ lastHandler' # "handleSend" =>
              \/ requests' = requests
              \/ \E req \in BagToSet(requests) :
                     requests' = requests (-) SetToBag({req})]_vars

\* A request asked under A with the question "q" is in flight while the
\* Session is connected to B.
C13_Witness ==
    /\ currentVideoId = JsStr("B")
    /\ BagIn([video_id |-> JsStr("A"), question |-> "q"], requests)

\* C14: the Session starts Disconnected, with no videoId, and neither a
\* handleSend call nor the handling of a request's end changes
\* Session.videoId or the status indicator.
C14_SessionOnlyByReconcile ==
    /\ currentVideoId = JsNull /\ statusEl.textContent # "Connected"
    /\ [][(\/ lastHandler' = "handleSend"
           \/ \E req \in BagToSet(requests) : Completed(req))
              => UNCHANGED <<currentVideoId, statusEl>>]_vars

\* Connected, a question and its reply at the end of the log and nothing
\* pending: a submission has run from start to end.
C14_Witness ==
    /\ statusEl.textContent = "Connected"
    /\ Truthy(currentVideoId)
    /\ Pending = 0
    /\ Len(chatHistory) >= 3
    /\ chatHistory[Len(chatHistory) - 1].sender = "user"
    /\ chatHistory[Len(chatHistory)].sender = "bot"

\* C15: a reconcile() run that finds no video leaves the log and the
\* requests as they are; it clears Session.videoId, shows the reason and
\* disables the controls.
C15_DisconnectKeepsLog ==
    [][\A t \in SendTabs :
           (Reconciled(t) /\ ~Truthy(FoundVideo(t))) =>
               /\ chatHistory' = chatHistory
               /\ requests' = requests
               /\ currentVideoId' = JsNull
               /\ statusEl'.textContent \in {"No Video ID", "Not YouTube"}
               /\ ControlsDisabled']_vars

\* Disconnected with "No Video ID", the log still holding the greeting, a
\* question and its placeholder.
C15_Witness ==
    /\ statusEl.textContent = "No Video ID"
    /\ currentVideoId = JsNull
    /\ Len(chatHistory) = 3
    /\ chatHistory[2].sender = "user"
    /\ Placeholders(chatHistory) = 1
    /\ ControlsDisabled

\* C16: a reconcile() run that finds a video after a run that ended
\* Disconnected takes it for a new one, whichever video was connected
\* before: the log becomes the single greeting.
C16_ReconnectResets ==
    [][\A t \in SendTabs :
           (Reconciled(t) /\ lastVideo.any /\ ~Truthy(lastVideo.video)
                          /\ Truthy(FoundVideo(t))) =>
               /\ currentVideoId' = FoundVideo(t)
               /\ chatHistory' = <<Greeting>>]_vars

\* Connected to A again with the log reset to the greeting, while a question
\* asked under A before the disconnect is still pending.
C16_Witness ==
    /\ currentVideoId = JsStr("A")
    /\ lastVideo.any /\ ~lastVideo.again
    /\ chatHistory = <<Greeting>>
    /\ \E req \in BagToSet(requests) : req.video_id = JsStr("A")

====
